---- MODULE Spec2Model ----
(***************************************************************************)
(* Model of tiberius' TLS stream creation in its two backends:             *)
(*   src/client/tls_stream/rustls_tls_stream.rs   (TlsStream::new)         *)
(*   src/client/tls_stream/native_tls_stream.rs   (create_tls_stream)      *)
(* One connection attempt per backend is made for the same Config, the     *)
(* same file system, the same platform trust store and the same server.    *)
(***************************************************************************)
EXTENDS Integers, Sequences, FiniteSets

\* ------------------------------------------------------------------------
\* Bounds of the model
\* ------------------------------------------------------------------------

\* longest PEM text (in PEM blocks) of a CA file or bundle
MaxBlocks == 2

\* largest number of certificates the platform trust store returns
MaxNative == 2

\* ------------------------------------------------------------------------
\* Values
\* ------------------------------------------------------------------------

\* Option::None of path.extension()
NoExtension == <<>>

\* DER payloads: two certificate authorities, and bytes that are no certificate
CertAuthorities == {"CA1", "CA2"}

Junk == "junk"

\* an io::ErrorKind that fs::read reports
ReadFailures == {"NotFound", "PermissionDenied"}

\* one PEM block: whether its bytes are UTF-8 text, whether its base64 body
\* decodes, and the DER it decodes to
PemBlockValues ==
    {[utf8 |-> TRUE, b64 |-> TRUE, der |-> "CA1"],
     [utf8 |-> TRUE, b64 |-> TRUE, der |-> Junk],
     [utf8 |-> TRUE, b64 |-> FALSE, der |-> Junk],
     [utf8 |-> FALSE, b64 |-> FALSE, der |-> Junk]}

SeqsUpTo(S, n) == UNION {[1..k -> S] : k \in 0..n}

\* byte buffers (Vec<u8>): a PEM text of some blocks, or one binary DER blob
PemText(blocks) == [fmt |-> "pem", blocks |-> blocks, der |-> Junk]

DerBlob(d) == [fmt |-> "der", blocks |-> <<>>, der |-> d]

Buffers ==
    {PemText(bs) : bs \in SeqsUpTo(PemBlockValues, MaxBlocks)} \cup {DerBlob("CA1"), DerBlob(Junk)}

\* ------------------------------------------------------------------------
\* crate::Error and crate::Result
\* ------------------------------------------------------------------------

\* an error message is a sequence of pieces of text, as format! puts them together
ErrIo(kind, message) == [variant |-> "Io", kind |-> kind, message |-> message]

ErrTls(message) == [variant |-> "Tls", kind |-> "None", message |-> message]

NoError == [variant |-> "None", kind |-> "None", message |-> <<>>]

MsgCouldNotRead == <<"Could not read provided CA certificate!">>

MsgUnsupportedExt ==
    <<"Provided CA certificate with unsupported file-extension! Supported types are pem, crt and der.">>

\* path.to_string_lossy(): the CA file of the model is "ca" with the extension
PathText(path) == IF path.ext = <<>> THEN <<"c", "a">> ELSE <<"c", "a", ".">> \o path.ext

\* format!("Certificate file {} contain 0 or more than 1 certs", path.to_string_lossy())
MsgCertCount(path) ==
    <<"Certificate file ">> \o PathText(path) \o <<" contain 0 or more than 1 certs">>

MsgWarnTrustAll == <<"WARN", "Trusting the server certificate without validation.">>

MsgInfoDefault == <<"INFO", "Using default trust configuration.">>

MsgInfoHandshake == <<"INFO", "Performing a TLS handshake">>

\* ------------------------------------------------------------------------
\* Text: file extensions and host names are sequences of characters
\* ------------------------------------------------------------------------

UpperToLower ==
    [A |-> "a", B |-> "b", C |-> "c", D |-> "d", E |-> "e", F |-> "f", G |-> "g",
     H |-> "h", I |-> "i", J |-> "j", K |-> "k", L |-> "l", M |-> "m", N |-> "n",
     O |-> "o", P |-> "p", Q |-> "q", R |-> "r", S |-> "s", T |-> "t", U |-> "u",
     V |-> "v", W |-> "w", X |-> "x", Y |-> "y", Z |-> "z"]

Digits == {"0", "1", "2", "3", "4", "5", "6", "7", "8", "9"}

Letters == DOMAIN UpperToLower \cup {UpperToLower[c] : c \in DOMAIN UpperToLower}

\* OsStr::to_ascii_lowercase
ToAsciiLowercase(s) ==
    [i \in 1..Len(s) |-> IF s[i] \in DOMAIN UpperToLower THEN UpperToLower[s[i]] ELSE s[i]]

ExtPem == <<"p", "e", "m">>

ExtCrt == <<"c", "r", "t">>

ExtDer == <<"d", "e", "r">>

\* the extensions of the CA file paths of the model
Extensions ==
    {ExtPem, <<"C", "r", "t">>, <<"D", "E", "R">>, <<"t", "x", "t">>, NoExtension}

\* the hosts of the model: a DNS name, an IPv4 literal, an IPv6 literal, a
\* string that is none of these, and a name whose first label is too long
HostDns == <<"d", "b", ".", "i", "o">>

HostIp == <<"1", "0", ".", "0", ".", "0", ".", "7">>

HostBad == <<"n", "o", " ", "h", "!">>

HostIp6 == <<":", ":", "1">>

HostLong == [i \in 1..64 |-> "a"] \o <<".", "i", "o">>

HostOther == <<"x", ".", "i", "o">>

Hosts == {HostDns, HostIp, HostIp6, HostBad, HostLong}

Placeholder ==
    <<"p", "l", "a", "c", "e", "h", "o", "l", "d", "e", "r", ".",
      "d", "o", "m", "a", "i", "n", ".", "c", "o", "m">>

\* the characters a label starts with, and those it goes on with besides "-"
LabelStartChars == Letters \cup {"_"}

LabelChars == Letters \cup Digits \cup {"_"}

MaxLabelLength == 63

MaxNameLength == 253

\* DnsName validation (rustls pki_types), one step of the scan of the
\* characters: labels of letters, digits, "_" and inner "-", separated by
\* single dots, no label longer than MaxLabelLength; the state is the kind of
\* position and the length of the label read so far
DnsStep(state, ch) ==
    LET st == state.st
        len == state.len
    IN  IF st = "Err" THEN [st |-> "Err", len |-> 0]
        ELSE IF ch = "." THEN
            (IF st = "Subsequent" THEN [st |-> "Next", len |-> 0]
             ELSE IF st = "NumericOnly" THEN [st |-> "NextAfterNumericOnly", len |-> 0]
             ELSE [st |-> "Err", len |-> 0])
        ELSE IF st \in {"Subsequent", "NumericOnly", "Hyphen"} /\ len >= MaxLabelLength
             THEN [st |-> "Err", len |-> 0]
        ELSE IF st \in {"Start", "Next", "NextAfterNumericOnly"} THEN
            (IF ch \in Digits THEN [st |-> "NumericOnly", len |-> 1]
             ELSE IF ch \in LabelStartChars THEN [st |-> "Subsequent", len |-> 1]
             ELSE [st |-> "Err", len |-> 0])
        ELSE IF ch = "-" THEN [st |-> "Hyphen", len |-> len + 1]
        ELSE IF st = "NumericOnly" /\ ch \in Digits THEN [st |-> "NumericOnly", len |-> len + 1]
        ELSE IF ch \in LabelChars THEN [st |-> "Subsequent", len |-> len + 1]
        ELSE [st |-> "Err", len |-> 0]

\* the state after the characters s[lo..hi], read in order from state; the
\* scan stops at the first character that is an error
RECURSIVE DnsScan(_, _, _, _)
DnsScan(s, lo, hi, state) ==
    IF lo > hi THEN state
    ELSE IF lo = hi THEN DnsStep(state, s[lo])
    ELSE LET mid == (lo + hi) \div 2
             left == DnsScan(s, lo, mid, state)
         IN  IF left.st = "Err" THEN left ELSE DnsScan(s, mid + 1, hi, left)

\* a name of at most MaxNameLength characters that does not end in "-" nor in
\* an all-numeric label
IsDnsName(s) ==
    /\ Len(s) <= MaxNameLength
    /\ DnsScan(s, 1, Len(s), [st |-> "Start", len |-> 0]).st \in {"Next", "Subsequent"}

\* the parts of s between the separators sep
Split(s, sep) ==
    LET at == {i \in 1..Len(s) : s[i] = sep}
        \* the position of the k-th separator; 0 and Len(s) + 1 bound the text
        pos(k) == IF k = 0 THEN 0
                  ELSE IF k > Cardinality(at) THEN Len(s) + 1
                  ELSE CHOOSE i \in at : Cardinality({j \in at : j <= i}) = k
    IN  [k \in 1..(Cardinality(at) + 1) |-> SubSeq(s, pos(k - 1) + 1, pos(k) - 1)]

DecimalDigits == <<"0", "1", "2", "3", "4", "5", "6", "7", "8", "9">>

DigitValue(c) == (CHOOSE n \in 1..10 : DecimalDigits[n] = c) - 1

RECURSIVE DecimalValue(_, _)
DecimalValue(ds, n) ==
    IF n = 0 THEN 0 ELSE 10 * DecimalValue(ds, n - 1) + DigitValue(ds[n])

\* an octet of an IPv4 literal: one to three digits, no leading zero, a u8
IsOctet(ds) ==
    /\ Len(ds) \in 1..3
    /\ \A j \in 1..Len(ds) : ds[j] \in Digits
    /\ Len(ds) > 1 => ds[1] # "0"
    /\ DecimalValue(ds, Len(ds)) <= 255

\* Ipv4Addr parsing: four octets separated by dots
IsIpv4(s) ==
    LET parts == Split(s, ".")
    IN  Len(parts) = 4 /\ \A k \in 1..4 : IsOctet(parts[k])

HexDigits == Digits \cup {"a", "b", "c", "d", "e", "f", "A", "B", "C", "D", "E", "F"}

\* a group of an IPv6 literal: one to four hexadecimal digits
IsHexGroup(g) == Len(g) \in 1..4 /\ \A j \in 1..Len(g) : g[j] \in HexDigits

\* the number of 16-bit groups that t, groups separated by single colons,
\* stands for; an IPv4 literal may be the last part and counts for two; -1
\* when t is not such a list
GroupCount(t, allowIpv4) ==
    IF t = <<>> THEN 0
    ELSE LET parts == Split(t, ":")
             n == Len(parts)
         IN  IF \E k \in 1..(n - 1) : ~IsHexGroup(parts[k]) THEN -1
             ELSE IF IsHexGroup(parts[n]) THEN n
             ELSE IF allowIpv4 /\ IsIpv4(parts[n]) THEN n + 1
             ELSE -1

\* Ipv6Addr parsing: eight groups, or fewer around one "::" that stands for at
\* least one group of zeroes; no IPv4 part before the "::"
IsIpv6(s) ==
    \/ GroupCount(s, TRUE) = 8
    \/ \E i \in 1..(Len(s) - 1) :
          /\ s[i] = ":" /\ s[i + 1] = ":"
          /\ LET head == GroupCount(SubSeq(s, 1, i - 1), FALSE)
                 tail == GroupCount(SubSeq(s, i + 2, Len(s)), TRUE)
             IN  head >= 0 /\ tail >= 0 /\ head + tail <= 7

\* IpAddr parsing: an IPv4 literal, else an IPv6 literal
IsIpLiteral(s) == IsIpv4(s) \/ IsIpv6(s)

\* ServerName::try_from(host): a DNS name, else an IP address, else an error
ServerNameTryFrom(host) ==
    IF IsDnsName(host) THEN [ok |-> TRUE, kind |-> "DnsName", name |-> host]
    ELSE IF IsIpLiteral(host) THEN [ok |-> TRUE, kind |-> "IpAddress", name |-> host]
    ELSE [ok |-> FALSE, kind |-> "None", name |-> <<>>]

MsgInvalidDnsName == <<"invalid dns name">>

NoServerName == [ok |-> FALSE, kind |-> "None", name |-> <<>>]

\* mutant of get_server_name: the placeholder under every policy
get_server_name_lenient(config) ==
    LET sn == ServerNameTryFrom(config.host)
    IN  IF sn.ok THEN [ok |-> TRUE, sn |-> sn, err |-> NoError]
        ELSE [ok |-> TRUE, sn |-> ServerNameTryFrom(Placeholder), err |-> NoError]

\* get_server_name: the parsed host; under TrustAll a placeholder for an
\* unparseable host; otherwise Error::Tls
get_server_name(config) ==
    LET sn == ServerNameTryFrom(config.host)
    IN  IF sn.ok THEN [ok |-> TRUE, sn |-> sn, err |-> NoError]
        ELSE IF config.trust.tag = "TrustAll"
             THEN [ok |-> TRUE, sn |-> ServerNameTryFrom(Placeholder), err |-> NoError]
        ELSE [ok |-> FALSE, sn |-> NoServerName, err |-> ErrTls(MsgInvalidDnsName)]

\* ------------------------------------------------------------------------
\* Certificate parsing
\* ------------------------------------------------------------------------

\* the PEM blocks of a buffer; a binary DER blob holds none
PemBlocksOf(buf) == IF buf.fmt = "pem" THEN buf.blocks ELSE <<>>

\* rustls_pemfile::certs: the DER payload of every certificate block, or an
\* io::Error (InvalidData) when a block's base64 does not decode; the
\* payloads are not looked at
PemfileCerts(buf) ==
    LET blocks == PemBlocksOf(buf)
    IN  IF \E i \in 1..Len(blocks) : ~blocks[i].b64
        THEN [ok |-> FALSE, ders |-> <<>>, err |-> ErrIo("InvalidData", <<"base64">>)]
        ELSE [ok |-> TRUE, ders |-> [i \in 1..Len(blocks) |-> blocks[i].der], err |-> NoError]

\* CertificateDer::from(buf): the bytes as they are; a PEM text is no DER
CertificateDerFrom(buf) == IF buf.fmt = "der" THEN buf.der ELSE Junk

\* whether RootCertStore::add accepts the DER payload as a trust anchor
IsAnchor(der) == der \in CertAuthorities

MsgBadDer == <<"invalid peer certificate: BadEncoding">>

\* RootCertStore::empty() followed by add(..)? of each payload in turn:
\* the first payload that is no certificate ends it with Error::Tls
RECURSIVE AddAll(_, _, _)
AddAll(ders, i, roots) ==
    IF i > Len(ders) THEN [ok |-> TRUE, roots |-> roots, err |-> NoError]
    ELSE IF ~IsAnchor(ders[i]) THEN [ok |-> FALSE, roots |-> <<>>, err |-> ErrTls(MsgBadDer)]
    ELSE AddAll(ders, i + 1, Append(roots, ders[i]))

\* how the platform's TLS library reads a PEM buffer: OpenSSL reads the first
\* block and ignores what follows, Security.framework imports the buffer and
\* wants exactly one item in it, Schannel wants the whole buffer to be UTF-8
\* text and then reads the first block
PemImports == {"FirstBlock", "SingleItem", "FirstBlockOfText"}

\* the TLS library native-tls runs on, with the layout of its built-in root
\* store: OpenSSL with the roots in one bundle file or in a hashed directory
\* of one file per root, Security.framework with its keychain, or Schannel
\* with the system certificate store
NativeTlsLibraries == {"OpenSslFile", "OpenSslDir", "SecurityFramework", "Schannel"}

PemImportOf(platform) ==
    IF platform.tls = "SecurityFramework" THEN "SingleItem"
    ELSE IF platform.tls = "Schannel" THEN "FirstBlockOfText"
    ELSE "FirstBlock"

\* async_native_tls Certificate::from_pem
CertificateFromPem(buf, import) ==
    LET blocks == PemBlocksOf(buf)
    IN  IF /\ Len(blocks) >= 1
           /\ blocks[1].b64
           /\ IsAnchor(blocks[1].der)
           /\ import = "SingleItem" => Len(blocks) = 1
           /\ import = "FirstBlockOfText" => \A i \in 1..Len(blocks) : blocks[i].utf8
        THEN [ok |-> TRUE, cert |-> blocks[1].der, err |-> NoError]
        ELSE [ok |-> FALSE, cert |-> Junk, err |-> ErrTls(<<"from_pem">>)]

\* async_native_tls Certificate::from_der
CertificateFromDer(buf) ==
    IF IsAnchor(CertificateDerFrom(buf))
    THEN [ok |-> TRUE, cert |-> CertificateDerFrom(buf), err |-> NoError]
    ELSE [ok |-> FALSE, cert |-> Junk, err |-> ErrTls(<<"from_der">>)]

\* IterCertBundle::new(bundle): one buffer per PEM block of the bundle
IterCertBundle(bundle) ==
    [i \in 1..Len(PemBlocksOf(bundle)) |-> PemText(<<PemBlocksOf(bundle)[i]>>)]

\* ------------------------------------------------------------------------
\* rustls backend: the client configuration of each trust policy
\* ------------------------------------------------------------------------

NoClientConfig == [roots |-> <<>>, verifier |-> "None", enable_sni |-> FALSE]

\* builder.with_root_certificates(roots).with_no_client_auth()
WithRootCertificates(roots) ==
    [roots |-> roots, verifier |-> "WebPkiServerVerifier", enable_sni |-> TRUE]

\* config.dangerous().set_certificate_verifier(Arc::new(NoCertVerifier {}))
SetNoCertVerifier(cfg) == [cfg EXCEPT !.verifier = "NoCertVerifier"]

RustlsOk(cfg, log) == [ok |-> TRUE, panic |-> FALSE, cfg |-> cfg, err |-> NoError, log |-> log]

RustlsErr(err) ==
    [ok |-> FALSE, panic |-> FALSE, cfg |-> NoClientConfig, err |-> err, log |-> <<>>]

RustlsPanic(message, log) ==
    [ok |-> FALSE, panic |-> TRUE, cfg |-> NoClientConfig,
     err |-> [variant |-> "Panic", kind |-> "None", message |-> message], log |-> log]

\* the else branch of `if let Ok(buf) = fs::read(path)`; `read` is fs::read's result
RustlsReadError(read) == ErrIo("InvalidData", MsgCouldNotRead)

\* the match on path.extension(): the one DER payload of the CA file
RustlsLoadCert(path, buf) ==
    LET ext == path.ext IN
    IF ext # NoExtension /\ (ToAsciiLowercase(ext) = ExtPem \/ ToAsciiLowercase(ext) = ExtCrt)
    THEN LET pem_cert == PemfileCerts(buf)
         IN  IF ~pem_cert.ok THEN [ok |-> FALSE, der |-> Junk, err |-> pem_cert.err]
             ELSE IF Len(pem_cert.ders) # 1
                  THEN [ok |-> FALSE, der |-> Junk, err |-> ErrIo("InvalidInput", MsgCertCount(path))]
             ELSE [ok |-> TRUE, der |-> pem_cert.ders[1], err |-> NoError]
    ELSE IF ext # NoExtension /\ ToAsciiLowercase(ext) = ExtDer
    THEN [ok |-> TRUE, der |-> CertificateDerFrom(buf), err |-> NoError]
    ELSE [ok |-> FALSE, der |-> Junk, err |-> ErrIo("InvalidInput", MsgUnsupportedExt)]

\* TrustConfig::CaCertificateLocation(path)
RustlsCaCertificateLocation(path, read) ==
    IF ~read.ok THEN RustlsErr(RustlsReadError(read))
    ELSE LET cert == RustlsLoadCert(path, read.buf)
         IN  IF ~cert.ok THEN RustlsErr(cert.err)
             ELSE LET cert_store == AddAll(<<cert.der>>, 1, <<>>)
                  IN  IF ~cert_store.ok THEN RustlsErr(cert_store.err)
                      ELSE RustlsOk(WithRootCertificates(cert_store.roots), <<>>)

\* the root store of a bundle: every block is PEM-decoded, then added in turn
RustlsBundleStore(bundle) ==
    LET certs == PemfileCerts(bundle)
    IN  IF ~certs.ok THEN [ok |-> FALSE, roots |-> <<>>, err |-> certs.err]
        ELSE AddAll(certs.ders, 1, <<>>)

\* TrustConfig::CaCertificateBundle(bundle)
RustlsCaCertificateBundle(bundle) ==
    LET cert_store == RustlsBundleStore(bundle)
    IN  IF ~cert_store.ok THEN RustlsErr(cert_store.err)
        ELSE RustlsOk(WithRootCertificates(cert_store.roots), <<>>)

\* TrustConfig::TrustAll; the line `config.enable_sni = false` is commented out
RustlsTrustAll ==
    RustlsOk(SetNoCertVerifier(WithRootCertificates(<<>>)), <<MsgWarnTrustAll>>)

\* a count as format! writes it
RECURSIVE CountText(_)
CountText(n) ==
    IF n < 10 THEN <<DecimalDigits[n + 1]>>
    ELSE CountText(n \div 10) \o <<DecimalDigits[(n % 10) + 1]>>

\* the two events for a platform certificate that roots.add refuses
MsgInvalidCert(der) ==
    <<<<"TRACE", "invalid cert der ", der>>,
      <<"DEBUG", "certificate parsing failed: ", "InvalidCertificate(BadEncoding)">>>>

\* the event after the loop over the platform certificates
MsgProcessed(valid_count, invalid_count) ==
    <<"TRACE", "with_native_roots processed ">> \o CountText(valid_count)
        \o <<" valid and ">> \o CountText(invalid_count) \o <<" invalid certs">>

\* the loop of with_native_roots over the platform certificates from the
\* i-th on: certificates the store refuses are skipped; the store, the two
\* counts and the events emitted
RECURSIVE NativeRoots(_, _, _)
NativeRoots(certs, i, acc) ==
    IF i > Len(certs) THEN acc
    ELSE IF IsAnchor(certs[i])
    THEN NativeRoots(certs, i + 1,
                     [acc EXCEPT !.roots = Append(@, certs[i]), !.valid_count = @ + 1])
    ELSE NativeRoots(certs, i + 1,
                     [acc EXCEPT !.log = @ \o MsgInvalidCert(certs[i]), !.invalid_count = @ + 1])

\* mutant of RustlsDefaultConfig: the permissive verifier leaks into Default
RustlsDefaultConfigPermissive(roots) == SetNoCertVerifier(WithRootCertificates(roots))

\* the configuration Default builds from a non-empty root store
RustlsDefaultConfig(roots) == WithRootCertificates(roots)

\* TrustConfig::Default: with_native_roots, with its expect and its assert
RustlsDefault(platform) ==
    IF ~platform.ok THEN RustlsPanic(<<"could not load platform certs">>, <<MsgInfoDefault>>)
    ELSE LET done == NativeRoots(platform.certs, 1,
                                 [roots |-> <<>>, valid_count |-> 0, invalid_count |-> 0,
                                  log |-> <<>>])
             log == <<MsgInfoDefault>> \o done.log
                        \o <<MsgProcessed(done.valid_count, done.invalid_count)>>
         IN  IF done.roots = <<>> THEN RustlsPanic(<<"no CA certificates found">>, log)
             ELSE RustlsOk(RustlsDefaultConfig(done.roots), log)

\* the match on config.trust
RustlsResolveTrust(trust, read, platform) ==
    CASE trust.tag = "CaCertificateLocation" -> RustlsCaCertificateLocation(trust.path, read)
      [] trust.tag = "CaCertificateBundle" -> RustlsCaCertificateBundle(trust.bundle)
      [] trust.tag = "TrustAll" -> RustlsTrustAll
      [] trust.tag = "Default" -> RustlsDefault(platform)

\* ------------------------------------------------------------------------
\* native-tls backend: the connector builder of each trust policy
\* ------------------------------------------------------------------------

\* TlsConnector::new()
NewTlsConnector ==
    [root_certificates |-> <<>>, accept_invalid_certs |-> FALSE,
     accept_invalid_hostnames |-> FALSE, use_sni |-> TRUE]

NativeOk(builder, log) == [ok |-> TRUE, builder |-> builder, err |-> NoError, log |-> log]

NativeErr(err) == [ok |-> FALSE, builder |-> NewTlsConnector, err |-> err, log |-> <<>>]

\* builder.add_root_certificate(c)
AddRootCertificate(builder, c) ==
    [builder EXCEPT !.root_certificates = Append(@, c)]

\* the else branch of `if let Ok(buf) = fs::read(path)`; `read` is fs::read's result
NativeReadError(read) == ErrTls(MsgCouldNotRead)

\* the match on path.extension(): the certificate of the CA file
NativeLoadCert(ext, buf, import) ==
    IF ext # NoExtension /\ (ToAsciiLowercase(ext) = ExtPem \/ ToAsciiLowercase(ext) = ExtCrt)
    THEN CertificateFromPem(buf, import)
    ELSE IF ext # NoExtension /\ ToAsciiLowercase(ext) = ExtDer
    THEN CertificateFromDer(buf)
    ELSE [ok |-> FALSE, cert |-> Junk, err |-> ErrTls(MsgUnsupportedExt)]

\* TrustConfig::CaCertificateLocation(path)
NativeCaCertificateLocation(path, read, import) ==
    IF ~read.ok THEN NativeErr(NativeReadError(read))
    ELSE LET cert == NativeLoadCert(path.ext, read.buf, import)
         IN  IF ~cert.ok THEN NativeErr(cert.err)
             ELSE NativeOk(AddRootCertificate(NewTlsConnector, cert.cert), <<>>)

\* the loop over IterCertBundle: from_pem(cert)? of each block, added in turn
RECURSIVE NativeAddBundle(_, _, _, _)
NativeAddBundle(certs, i, builder, import) ==
    IF i > Len(certs) THEN NativeOk(builder, <<>>)
    ELSE LET c == CertificateFromPem(certs[i], import)
         IN  IF ~c.ok THEN NativeErr(c.err)
             ELSE NativeAddBundle(certs, i + 1, AddRootCertificate(builder, c.cert), import)

\* TrustConfig::CaCertificateBundle(bundle)
NativeCaCertificateBundle(bundle, import) ==
    NativeAddBundle(IterCertBundle(bundle), 1, NewTlsConnector, import)

\* TrustConfig::TrustAll
NativeTrustAll ==
    NativeOk([NewTlsConnector EXCEPT !.accept_invalid_certs = TRUE,
                                     !.accept_invalid_hostnames = TRUE,
                                     !.use_sni = FALSE],
             <<MsgWarnTrustAll>>)

\* TrustConfig::Default: the builder is left as it is
NativeDefault == NativeOk(NewTlsConnector, <<MsgInfoDefault>>)

\* the match on config.trust
NativeResolveTrust(trust, read, platform) ==
    CASE trust.tag = "CaCertificateLocation" ->
             NativeCaCertificateLocation(trust.path, read, PemImportOf(platform))
      [] trust.tag = "CaCertificateBundle" ->
             NativeCaCertificateBundle(trust.bundle, PemImportOf(platform))
      [] trust.tag = "TrustAll" -> NativeTrustAll
      [] trust.tag = "Default" -> NativeDefault

\* ------------------------------------------------------------------------
\* The handshake: what the certificate verification of each backend decides
\* ------------------------------------------------------------------------

Range(f) == {f[i] : i \in DOMAIN f}

\* the trust anchors the platform store yields
PlatformAnchors(platform) == {c \in Range(platform.certs) : IsAnchor(c)}

\* what the verification of the server's certificate finds: the chain is
\* checked before the name
VerifyCertificate(anchors, name, server, checkName) ==
    IF server.issuer \notin anchors THEN "UnknownIssuer"
    ELSE IF checkName /\ name \notin server.names THEN "NotValidForName"
    ELSE "Ok"

\* the text of rustls's error for a failed verification; for a name the
\* certificate does not cover the library goes on with the names involved
MsgRustlsHandshake(cause) ==
    IF cause = "UnknownIssuer" THEN <<"invalid peer certificate: UnknownIssuer">>
    ELSE <<"invalid peer certificate: certificate not valid for name">>

\* connector.connect(server_name, stream): NoCertVerifier accepts every chain;
\* otherwise the chain must lead to a root of the store and name the server.
\* A failed handshake is an io::Error of kind InvalidData, which `?` turns
\* into Error::Io
RustlsConnect(cfg, sn, server) ==
    LET cause == IF cfg.verifier = "NoCertVerifier" THEN "Ok"
                 ELSE VerifyCertificate(Range(cfg.roots), sn.name, server, TRUE)
    IN  IF cause = "Ok" THEN [ok |-> TRUE, err |-> NoError]
        ELSE [ok |-> FALSE, err |-> ErrIo("InvalidData", MsgRustlsHandshake(cause))]

\* the built-in roots of the platform's TLS library: OpenSSL loads none of a
\* bundle file that holds a certificate it cannot parse; a hashed directory,
\* the keychain and the system certificate store yield the certificates that
\* parse
NativePlatformAnchors(platform) ==
    IF platform.tls = "OpenSslFile" /\ \E c \in Range(platform.certs) : ~IsAnchor(c)
    THEN {}
    ELSE PlatformAnchors(platform)

\* the anchors of a native-tls handshake: the built-in platform roots (they
\* are not disabled) and the added root certificates
NativeTrustAnchors(builder, platform) ==
    NativePlatformAnchors(platform) \cup Range(builder.root_certificates)

\* the text of the TLS library's error for a failed verification, as OpenSSL
\* words it: a domain that parses as an IP address is compared with the
\* certificate's IP addresses, any other domain with its DNS names
MsgNativeHandshake(cause, domain) ==
    IF cause = "UnknownIssuer"
    THEN <<"certificate verify failed", "unable to get local issuer certificate">>
    ELSE IF IsIpLiteral(domain)
    THEN <<"certificate verify failed", "IP address mismatch">>
    ELSE <<"certificate verify failed", "hostname mismatch">>

\* builder.connect(domain, stream): accepting invalid certificates switches
\* the verification off, the check of the host name with it
NativeConnect(builder, domain, server, platform) ==
    LET cause == IF builder.accept_invalid_certs THEN "Ok"
                 ELSE VerifyCertificate(NativeTrustAnchors(builder, platform), domain, server,
                                        ~builder.accept_invalid_hostnames)
    IN  IF cause = "Ok" THEN [ok |-> TRUE, err |-> NoError]
        ELSE [ok |-> FALSE, err |-> ErrTls(MsgNativeHandshake(cause, domain))]

\* ------------------------------------------------------------------------
\* The phases of a connection attempt
\* ------------------------------------------------------------------------

Phases == {"Idle", "ResolvingTrust", "ResolvingName", "Handshaking", "Established", "Failed"}

\* mutant of NextPhase: a failed handshake resolves the trust material again
NextPhaseRetrying(phase, ok) ==
    CASE phase = "Idle" -> "ResolvingTrust"
      [] phase = "ResolvingTrust" -> IF ok THEN "ResolvingName" ELSE "Failed"
      [] phase = "ResolvingName" -> IF ok THEN "Handshaking" ELSE "Failed"
      [] phase = "Handshaking" -> IF ok THEN "Established" ELSE "ResolvingTrust"

\* where an attempt goes when the step of `phase` returns: on, or out with `?`
NextPhase(phase, ok) ==
    CASE phase = "Idle" -> "ResolvingTrust"
      [] phase = "ResolvingTrust" -> IF ok THEN "ResolvingName" ELSE "Failed"
      [] phase = "ResolvingName" -> IF ok THEN "Handshaking" ELSE "Failed"
      [] phase = "Handshaking" -> IF ok THEN "Established" ELSE "Failed"

\* ------------------------------------------------------------------------
\* State
\* ------------------------------------------------------------------------

VARIABLES
    config,     \* Config: host and trust policy
    disk,       \* what fs::read returns for the configured CA file path
    platform,   \* the platform: what load_native_certs returns, the TLS library of native-tls
    server,     \* the certificate chain the server presents
    rPhase,     \* rustls attempt: where TlsStream::new is
    rConfig,    \* rustls attempt: client_config
    rName,      \* rustls attempt: the ServerName handed to connect
    rResult,    \* rustls attempt: what TlsStream::new returned
    rLog,       \* rustls attempt: the events emitted
    nPhase,     \* native-tls attempt: where create_tls_stream is
    nBuilder,   \* native-tls attempt: builder
    nDomain,    \* native-tls attempt: the domain handed to connect
    nResult,    \* native-tls attempt: what create_tls_stream returned
    nLog        \* native-tls attempt: the events emitted

env == <<config, disk, platform, server>>

rvars == <<rPhase, rConfig, rName, rResult, rLog>>

nvars == <<nPhase, nBuilder, nDomain, nResult, nLog>>

vars == <<config, disk, platform, server, rPhase, rConfig, rName, rResult, rLog,
          nPhase, nBuilder, nDomain, nResult, nLog>>

NoPath == [ext |-> NoExtension]

NoFile == [ok |-> FALSE, kind |-> "NotFound", buf |-> PemText(<<>>)]

TrustConfigs ==
    {[tag |-> "Default", path |-> NoPath, bundle |-> PemText(<<>>)],
     [tag |-> "TrustAll", path |-> NoPath, bundle |-> PemText(<<>>)]}
    \cup {[tag |-> "CaCertificateLocation", path |-> [ext |-> e], bundle |-> PemText(<<>>)] :
             e \in Extensions}
    \cup {[tag |-> "CaCertificateBundle", path |-> NoPath, bundle |-> b] : b \in Buffers}

ReadResults ==
    {[ok |-> FALSE, kind |-> k, buf |-> PemText(<<>>)] : k \in ReadFailures}
    \cup {[ok |-> TRUE, kind |-> "None", buf |-> b] : b \in Buffers}

Platforms ==
    {[ok |-> FALSE, certs |-> <<>>, tls |-> l] : l \in NativeTlsLibraries}
    \cup {[ok |-> TRUE, certs |-> c, tls |-> l] :
             c \in SeqsUpTo({"CA2", Junk}, MaxNative), l \in NativeTlsLibraries}

Servers ==
    {[issuer |-> i, names |-> n] : i \in CertAuthorities, n \in {{HostDns, HostIp}, {HostOther}}}

NoResult == [tag |-> "None", err |-> NoError]

Init ==
    /\ config \in {[host |-> h, trust |-> t] : h \in Hosts, t \in TrustConfigs}
    /\ disk \in ReadResults
    /\ config.trust.tag # "CaCertificateLocation" => disk = NoFile
    /\ platform \in Platforms
    /\ server \in Servers
    /\ rPhase = "Idle"
    /\ rConfig = NoClientConfig
    /\ rName = NoServerName
    /\ rResult = NoResult
    /\ rLog = <<>>
    /\ nPhase = "Idle"
    /\ nBuilder = NewTlsConnector
    /\ nDomain = <<>>
    /\ nResult = NoResult
    /\ nLog = <<>>

\* ------------------------------------------------------------------------
\* rustls backend: TlsStream::new
\* ------------------------------------------------------------------------

\* entry of TlsStream::new: the INFO event and ClientConfig::builder()
Rustls_new ==
    /\ rPhase = "Idle"
    /\ rPhase' = NextPhase(rPhase, TRUE)
    /\ rLog' = Append(rLog, MsgInfoHandshake)
    /\ UNCHANGED <<rConfig, rName, rResult, env, nvars>>

\* the end of the match on config.trust with outcome `out`
RustlsTrustResolved(out) ==
    /\ rPhase' = NextPhase(rPhase, out.ok)
    /\ rConfig' = out.cfg
    /\ rLog' = rLog \o out.log
    /\ rResult' = IF out.ok THEN rResult
                  ELSE [tag |-> IF out.panic THEN "Panic" ELSE "Err", err |-> out.err]
    /\ UNCHANGED <<rName, env, nvars>>

Rustls_CaCertificateLocation ==
    /\ rPhase = "ResolvingTrust"
    /\ config.trust.tag = "CaCertificateLocation"
    /\ RustlsTrustResolved(RustlsResolveTrust(config.trust, disk, platform))

Rustls_CaCertificateBundle ==
    /\ rPhase = "ResolvingTrust"
    /\ config.trust.tag = "CaCertificateBundle"
    /\ RustlsTrustResolved(RustlsResolveTrust(config.trust, disk, platform))

Rustls_TrustAll ==
    /\ rPhase = "ResolvingTrust"
    /\ config.trust.tag = "TrustAll"
    /\ RustlsTrustResolved(RustlsResolveTrust(config.trust, disk, platform))

Rustls_Default ==
    /\ rPhase = "ResolvingTrust"
    /\ config.trust.tag = "Default"
    /\ RustlsTrustResolved(RustlsResolveTrust(config.trust, disk, platform))

\* get_server_name(config)?, the first argument of connect
Rustls_get_server_name ==
    /\ rPhase = "ResolvingName"
    /\ LET sn == get_server_name(config)
       IN  /\ rPhase' = NextPhase(rPhase, sn.ok)
           /\ rName' = sn.sn
           /\ rResult' = IF sn.ok THEN rResult ELSE [tag |-> "Err", err |-> sn.err]
    /\ UNCHANGED <<rConfig, rLog, env, nvars>>

\* connector.connect(..).await?
Rustls_connect ==
    /\ rPhase = "Handshaking"
    /\ LET out == RustlsConnect(rConfig, rName, server)
       IN  /\ rPhase' = NextPhase(rPhase, out.ok)
           /\ rResult' = IF out.ok THEN [tag |-> "Ok", err |-> NoError]
                         ELSE [tag |-> "Err", err |-> out.err]
    /\ UNCHANGED <<rConfig, rName, rLog, env, nvars>>

\* ------------------------------------------------------------------------
\* native-tls backend: create_tls_stream
\* ------------------------------------------------------------------------

\* entry of create_tls_stream: TlsConnector::new()
Native_create_tls_stream ==
    /\ nPhase = "Idle"
    /\ nPhase' = NextPhase(nPhase, TRUE)
    /\ nBuilder' = NewTlsConnector
    /\ UNCHANGED <<nDomain, nResult, nLog, env, rvars>>

\* the end of the match on config.trust with outcome `out`
NativeTrustResolved(out) ==
    /\ nPhase' = NextPhase(nPhase, out.ok)
    /\ nBuilder' = out.builder
    /\ nLog' = nLog \o out.log
    /\ nResult' = IF out.ok THEN nResult ELSE [tag |-> "Err", err |-> out.err]
    /\ UNCHANGED <<nDomain, env, rvars>>

Native_CaCertificateLocation ==
    /\ nPhase = "ResolvingTrust"
    /\ config.trust.tag = "CaCertificateLocation"
    /\ NativeTrustResolved(NativeResolveTrust(config.trust, disk, platform))

Native_CaCertificateBundle ==
    /\ nPhase = "ResolvingTrust"
    /\ config.trust.tag = "CaCertificateBundle"
    /\ NativeTrustResolved(NativeResolveTrust(config.trust, disk, platform))

Native_TrustAll ==
    /\ nPhase = "ResolvingTrust"
    /\ config.trust.tag = "TrustAll"
    /\ NativeTrustResolved(NativeResolveTrust(config.trust, disk, platform))

Native_Default ==
    /\ nPhase = "ResolvingTrust"
    /\ config.trust.tag = "Default"
    /\ NativeTrustResolved(NativeResolveTrust(config.trust, disk, platform))

\* config.get_host(), the first argument of connect: the host as configured
Native_get_host ==
    /\ nPhase = "ResolvingName"
    /\ nPhase' = NextPhase(nPhase, TRUE)
    /\ nDomain' = config.host
    /\ UNCHANGED <<nBuilder, nResult, nLog, env, rvars>>

\* builder.connect(..).await?
Native_connect ==
    /\ nPhase = "Handshaking"
    /\ LET out == NativeConnect(nBuilder, nDomain, server, platform)
       IN  /\ nPhase' = NextPhase(nPhase, out.ok)
           /\ nResult' = IF out.ok THEN [tag |-> "Ok", err |-> NoError]
                         ELSE [tag |-> "Err", err |-> out.err]
    /\ UNCHANGED <<nBuilder, nDomain, nLog, env, rvars>>

Next ==
    \/ Rustls_new
    \/ Rustls_CaCertificateLocation
    \/ Rustls_CaCertificateBundle
    \/ Rustls_TrustAll
    \/ Rustls_Default
    \/ Rustls_get_server_name
    \/ Rustls_connect
    \/ Native_create_tls_stream
    \/ Native_CaCertificateLocation
    \/ Native_CaCertificateBundle
    \/ Native_TrustAll
    \/ Native_Default
    \/ Native_get_host
    \/ Native_connect

Spec == Init /\ [][Next]_vars

\* ------------------------------------------------------------------------
\* Vocabulary of the properties
\* ------------------------------------------------------------------------

Terminal == {"Established", "Failed"}

\* the attempt got its trust material and went on
PastTrust == {"ResolvingName", "Handshaking", "Established"}

\* the handshake on the raw stream was started
HandshakeStarted == {"Handshaking", "Established"}

IsLocation == config.trust.tag = "CaCertificateLocation"

IsBundle == config.trust.tag = "CaCertificateBundle"

IsTrustAll == config.trust.tag = "TrustAll"

IsDefault == config.trust.tag = "Default"

\* the extension of the configured CA file, lower-cased
LowerExt == ToAsciiLowercase(config.trust.path.ext)

\* every PEM block of the buffer is a well-formed certificate
AllBlocksValid(buf) ==
    \A i \in 1..Len(PemBlocksOf(buf)) : PemBlocksOf(buf)[i].b64 /\ IsAnchor(PemBlocksOf(buf)[i].der)

\* ------------------------------------------------------------------------
\* C1  engine equivalence
\* ------------------------------------------------------------------------

\* C1: once both backends have finished their attempt for the same Config,
\* file system, platform store and server chain, either both returned a
\* secure stream or both returned an error.
C1_EngineEquivalence ==
    (rPhase \in Terminal /\ nPhase \in Terminal)
        => ((rResult.tag = "Ok") <=> (nResult.tag = "Ok"))

\* ------------------------------------------------------------------------
\* C2  a .pem/.crt CA file must hold exactly one certificate
\* ------------------------------------------------------------------------

\* the CA file is readable, has a pem or crt extension and PEM-decodes
PemFileDecodes ==
    /\ IsLocation
    /\ disk.ok
    /\ LowerExt \in {ExtPem, ExtCrt}
    /\ PemfileCerts(disk.buf).ok

DecodedCount == Len(PemfileCerts(disk.buf).ders)

\* C2: under CaCertificateLocation with a readable .pem/.crt file, a file
\* that decodes to 0 or to 2 or more certificates makes both backends fail
\* with an error (InvalidInput where these files set the kind, in the rustls
\* backend) without starting a handshake, and a root store is only ever
\* built from a file that decodes to exactly one certificate.
C2_ExactlyOneCert ==
    (PemFileDecodes /\ DecodedCount # 1) =>
        /\ rPhase \notin PastTrust
        /\ nPhase \notin PastTrust
        /\ rPhase = "Failed" => (rResult.err.variant = "Io" /\ rResult.err.kind = "InvalidInput")
        /\ nPhase = "Failed" => nResult.tag = "Err"
        /\ rConfig.roots = <<>>
        /\ nBuilder.root_certificates = <<>>

\* ------------------------------------------------------------------------
\* C3  unsupported file extensions
\* ------------------------------------------------------------------------

\* the CA file path has an extension, and it is none of pem, crt, der
UnsupportedExt ==
    /\ IsLocation
    /\ config.trust.path.ext # NoExtension
    /\ LowerExt \notin {ExtPem, ExtCrt, ExtDer}

\* C3: under CaCertificateLocation a path whose extension is none of pem,
\* crt, der makes both backends fail with the InvalidInput
\* unsupported-file-extension error, whatever the file holds and whether or
\* not it can be read, and no handshake is started.
C3_UnsupportedExtRejected ==
    UnsupportedExt =>
        /\ rPhase \notin PastTrust
        /\ nPhase \notin PastTrust
        /\ rPhase = "Failed" => rResult.err = ErrIo("InvalidInput", MsgUnsupportedExt)
        /\ nPhase = "Failed" => nResult.err = ErrIo("InvalidInput", MsgUnsupportedExt)

\* ------------------------------------------------------------------------
\* C4  an unreadable CA file
\* ------------------------------------------------------------------------

Unreadable == IsLocation /\ ~disk.ok

\* C4: when the CA file cannot be read, the attempt fails with an I/O
\* error whose kind is the cause of the read failure (NotFound for a missing
\* file, PermissionDenied for an unreadable one), in both backends.
C4_KindReflectsCause ==
    Unreadable =>
        /\ rPhase = "Failed" => (rResult.err.variant = "Io" /\ rResult.err.kind = disk.kind)
        /\ nPhase = "Failed" => (nResult.err.variant = "Io" /\ nResult.err.kind = disk.kind)

\* ------------------------------------------------------------------------
\* C5  certificate bundles
\* ------------------------------------------------------------------------

\* C5: under CaCertificateBundle, a bundle of N well-formed PEM blocks gives
\* a root store of exactly those N certificates in both backends, and these
\* N are all the handshake trusts; a bundle with a malformed block makes
\* both backends fail while resolving trust, with no root store kept and no
\* handshake started.
C5_BundleFailFast ==
    IsBundle =>
        LET blocks == PemBlocksOf(config.trust.bundle)
            ders == [i \in 1..Len(blocks) |-> blocks[i].der]
        IN  IF AllBlocksValid(config.trust.bundle)
            THEN /\ rPhase \notin {"Idle", "ResolvingTrust"} =>
                        (rConfig.roots = ders /\ Len(rConfig.roots) = Len(blocks))
                 /\ nPhase \notin {"Idle", "ResolvingTrust"} =>
                        /\ nBuilder.root_certificates = ders
                        /\ Len(nBuilder.root_certificates) = Len(blocks)
                        /\ NativeTrustAnchors(nBuilder, platform) = Range(ders)
            ELSE /\ rPhase \in {"Idle", "ResolvingTrust", "Failed"}
                 /\ nPhase \in {"Idle", "ResolvingTrust", "Failed"}
                 /\ rConfig.roots = <<>>
                 /\ nBuilder.root_certificates = <<>>
                 /\ rPhase = "Failed" => rResult.tag = "Err"
                 /\ nPhase = "Failed" => nResult.tag = "Err"

\* ------------------------------------------------------------------------
\* C6  server-name resolution (rustls backend, get_server_name)
\* ------------------------------------------------------------------------

\* the trust material of the rustls attempt was resolved
RustlsTrustDone == rConfig.verifier # "None"

\* C6: get_server_name hands the handshake the parsed host whenever the host
\* parses as a DNS name or IP literal, under every policy; for a host that
\* does not parse it hands over the fixed placeholder under TrustAll, and
\* under the other three policies it returns a Tls error and no handshake is
\* started.
C6_ServerName ==
    LET parsed == ServerNameTryFrom(config.host)
    IN  /\ (rPhase \in HandshakeStarted /\ parsed.ok) =>
               (rName.ok /\ rName.name = config.host /\ rName.kind = parsed.kind)
        /\ (IsTrustAll /\ ~parsed.ok) =>
               /\ rPhase # "Failed"
               /\ rPhase \in HandshakeStarted =>
                      (rName.ok /\ rName.name = Placeholder /\ rName.kind = "DnsName")
        /\ ~IsTrustAll =>
               \/ /\ rPhase \notin HandshakeStarted
                  /\ ~rName.ok
                  /\ (rPhase = "Failed" /\ RustlsTrustDone) =>
                         (rResult.tag = "Err" /\ rResult.err.variant = "Tls")
               \/ parsed.ok

\* an unparseable host under TrustAll: connected with the placeholder name
C6_Witness ==
    /\ config.host = HostBad
    /\ IsTrustAll
    /\ rPhase = "Established"
    /\ rName.name = Placeholder

\* ------------------------------------------------------------------------
\* C7  TrustAll
\* ------------------------------------------------------------------------

\* C7: under TrustAll, in both backends, once the handshake has started the
\* warning has been emitted and the handshake configuration has certificate
\* verification, hostname checking and SNI all disabled.
C7_TrustAllDisablesAll ==
    IsTrustAll =>
        /\ rPhase \in HandshakeStarted =>
               /\ \E i \in 1..Len(rLog) : rLog[i] = MsgWarnTrustAll
               /\ rConfig.verifier = "NoCertVerifier"
               /\ ~rConfig.enable_sni
        /\ nPhase \in HandshakeStarted =>
               /\ \E i \in 1..Len(nLog) : nLog[i] = MsgWarnTrustAll
               /\ nBuilder.accept_invalid_certs
               /\ nBuilder.accept_invalid_hostnames
               /\ ~nBuilder.use_sni

\* ------------------------------------------------------------------------
\* C8  the permissive verifier belongs to TrustAll alone
\* ------------------------------------------------------------------------

\* C8: in every state, NoCertVerifier (rustls) or accept-invalid-certs /
\* accept-invalid-hostnames (native-tls) is set only under TrustAll; under
\* the other policies a stream is established only for a chain that leads
\* to a trust anchor and names the host.
C8_PermissiveOnlyTrustAll ==
    /\ rConfig.verifier = "NoCertVerifier" => IsTrustAll
    /\ (nBuilder.accept_invalid_certs \/ nBuilder.accept_invalid_hostnames) => IsTrustAll
    /\ (~IsTrustAll /\ rPhase \in HandshakeStarted) => rConfig.verifier = "WebPkiServerVerifier"
    /\ (~IsTrustAll /\ rPhase = "Established") =>
           (server.issuer \in Range(rConfig.roots) /\ config.host \in server.names)
    /\ (~IsTrustAll /\ nPhase = "Established") =>
           /\ server.issuer \in NativeTrustAnchors(nBuilder, platform)
           /\ config.host \in server.names

\* both backends are in the handshake with verification switched off
C8_Witness ==
    /\ IsTrustAll
    /\ rPhase = "Handshaking"
    /\ rConfig.verifier = "NoCertVerifier"
    /\ nPhase = "Handshaking"
    /\ nBuilder.accept_invalid_certs

\* ------------------------------------------------------------------------
\* C9  Default never handshakes without trust anchors
\* ------------------------------------------------------------------------

\* C9: under Default, no backend starts a handshake with zero trust
\* anchors, and an attempt on a platform that yields no usable anchor ends
\* failed.
C9_DefaultNeedsAnchors ==
    IsDefault =>
        /\ rPhase \in HandshakeStarted => rConfig.roots # <<>>
        /\ nPhase \in HandshakeStarted => NativeTrustAnchors(nBuilder, platform) # {}
        /\ PlatformAnchors(platform) = {} => (rPhase # "Established" /\ nPhase # "Established")

\* ------------------------------------------------------------------------
\* C10  the phases of an attempt
\* ------------------------------------------------------------------------

PhaseSteps ==
    {<<"Idle", "ResolvingTrust">>,
     <<"ResolvingTrust", "ResolvingName">>, <<"ResolvingTrust", "Failed">>,
     <<"ResolvingName", "Handshaking">>, <<"ResolvingName", "Failed">>,
     <<"Handshaking", "Established">>, <<"Handshaking", "Failed">>}

\* C10: every step of an attempt moves it along Idle, ResolvingTrust,
\* ResolvingName, Handshaking, Established, or out to Failed on an error; no
\* phase is left towards an earlier one or entered twice, Established and
\* Failed are never left, the handshake is entered only with the trust
\* material and the server name resolved, and an attempt is Failed exactly
\* when it has an error and Established exactly when it has a stream.
C10_PhaseOrder ==
    [][/\ rPhase' # rPhase => <<rPhase, rPhase'>> \in PhaseSteps
       /\ nPhase' # nPhase => <<nPhase, nPhase'>> \in PhaseSteps
       /\ rPhase \in Terminal => (rPhase' = rPhase /\ rResult' = rResult)
       /\ nPhase \in Terminal => (nPhase' = nPhase /\ nResult' = nResult)
       /\ rPhase' = "Handshaking" => (rConfig'.verifier # "None" /\ rName'.ok)
       /\ nPhase' = "Handshaking" => nDomain' = config.host
       /\ (rPhase' = "Failed") <=> (rResult'.tag \in {"Err", "Panic"})
       /\ (nPhase' = "Failed") <=> (nResult'.tag \in {"Err", "Panic"})
       /\ (rPhase' = "Established") <=> (rResult'.tag = "Ok")
       /\ (nPhase' = "Established") <=> (nResult'.tag = "Ok")]_vars

\* one attempt ended with a stream, the other failed in its handshake
C10_Witness ==
    /\ rPhase = "Failed"
    /\ rName.ok
    /\ nPhase = "Established"

====
